---- MODULE Spec2Model ----
(***************************************************************************)
(* Model of the resumable novel scraper, src/scraper.ts (second program of *)
(* the file: connectDB, scrapeNovelDetails, scrapeChapterContent, main)    *)
(* and of the Mongoose collections of src/unnamed/part_003.                *)
(*                                                                         *)
(* One action per await of main(); the synchronous code that follows an    *)
(* await up to the next await belongs to the same action.  The web site    *)
(* and the database are the environment: each GET and each store call      *)
(* draws its outcome with \E.  The store outlives the process; a process   *)
(* can be terminated at any await (Crash) and started again (Restart).     *)
(***************************************************************************)
EXTENDS Integers, Sequences, FiniteSets, TLC

\* ------------------------------------------------------------------ bounds
MaxChapters == 2    \* largest chapter count the site declares (one-novel lists)
MaxRuns     == 2    \* process starts explored (first run + restarts)
MaxNovels   == 3    \* longest startUrls list explored

\* null (and undefined) of a string-valued field: a one-element sequence that
\* is no string of characters
Null == <<"NULL">>

\* ------------------------------------------------------- input and the site
\* startUrls is fixed at build time.  The model explores the duplicate-free
\* lists <<1..n>> (URLs are interchangeable), each in a world that says how
\* many chapters the site declares at most, how often the program is started
\* and whether the site answers a page the same way every time (fixedSite:
\* "no source changes").  Long lists are explored with a small site.  The
\* site gives every novel a title of its own, except in the sameTitle world,
\* where all novels carry one title.
UrlList(n) == [k \in 1..n |-> k]

Worlds ==
    { [urls |-> UrlList(n), maxDeclared |-> MaxChapters, maxStarts |-> MaxRuns,
       fixedSite |-> f, sameTitle |-> FALSE] : n \in 0..1, f \in BOOLEAN }
    \cup
    { [urls |-> UrlList(2), maxDeclared |-> 1, maxStarts |-> 2, fixedSite |-> FALSE,
       sameTitle |-> FALSE] }
    \cup
    { [urls |-> UrlList(2), maxDeclared |-> 1, maxStarts |-> 2, fixedSite |-> FALSE,
       sameTitle |-> TRUE] }
    \cup
    { [urls |-> UrlList(n), maxDeclared |-> 1, maxStarts |-> 1,
       fixedSite |-> FALSE, sameTitle |-> FALSE] : n \in 3..MaxNovels }

Digit == [d \in 0..9 |->
            CASE d = 0 -> "0" [] d = 1 -> "1" [] d = 2 -> "2" [] d = 3 -> "3"
              [] d = 4 -> "4" [] d = 5 -> "5" [] d = 6 -> "6" [] d = 7 -> "7"
              [] d = 8 -> "8" [] d = 9 -> "9"]

IsDigit(c) == \E d \in 0..9 : Digit[d] = c
DigitVal(c) == CHOOSE d \in 0..9 : Digit[d] = c

\* Text of the '.header-stats span:nth-child(1) strong' element after
\* .trim() || null: Null or a non-empty string (a sequence of characters).
DeclaredCounts(maxDeclared) ==
    {Null, <<"x">>, <<"0">>, <<"-", "1">>, <<"0", ",", Digit[maxDeclared]>>}
        \cup { <<Digit[n]>> : n \in 1..maxDeclared }

\* Text of the 'h1.novel-title' element of the landing page of url
Titles(url, sameTitle) ==
    IF sameTitle THEN { <<"t">> } ELSE { <<"t", Digit[url]>> }
ChaptersUrls == { <<"u">> }

\* Raw inner HTML of '#content' (Null when the selector matches nothing).
RawHtmls == {Null, <<>>, <<" ">>, <<"a">>, <<" ", "b", " ">>}

NaN == -1000

\* s.replace(/,/g, '')
RECURSIVE RemoveCommas(_)
RemoveCommas(s) ==
    IF s = <<>> THEN <<>>
    ELSE IF Head(s) = "," THEN RemoveCommas(Tail(s))
         ELSE <<Head(s)>> \o RemoveCommas(Tail(s))

\* value of the longest prefix of decimal digits of s, read after acc
RECURSIVE DigitsPrefix(_, _, _)
DigitsPrefix(s, acc, seen) ==
    IF s = <<>> \/ ~IsDigit(Head(s))
    THEN IF seen THEN acc ELSE NaN
    ELSE DigitsPrefix(Tail(s), 10 * acc + DigitVal(Head(s)), TRUE)

RECURSIVE SkipSpaces(_)
SkipSpaces(s) ==
    IF s # <<>> /\ Head(s) = " " THEN SkipSpaces(Tail(s)) ELSE s

\* parseInt(s, 10): leading white space, optional sign, decimal digits
ParseInt(s) ==
    LET t == SkipSpaces(s) IN
    IF t # <<>> /\ Head(t) \in {"-", "+"}
    THEN LET v == DigitsPrefix(Tail(t), 0, FALSE) IN
         IF v = NaN THEN NaN ELSE IF Head(t) = "-" THEN 0 - v ELSE v
    ELSE DigitsPrefix(t, 0, FALSE)

RECURSIVE Reverse(_)
Reverse(s) == IF s = <<>> THEN <<>> ELSE Reverse(Tail(s)) \o <<Head(s)>>

\* String.prototype.trim()
Trim(s) == Reverse(SkipSpaces(Reverse(SkipSpaces(s))))

\* JavaScript truthiness of a string-or-null value
Truthy(v) == v # Null /\ v # <<>>

\* A response of the site to the GET of a novel's landing page, after
\* extraction: a failed GET yields the all-null details of the catch block.
LandingResponses(url, w) ==
    { [getOk |-> FALSE, title |-> Null, chapters |-> Null, chaptersUrl |-> Null] }
    \cup
    { [getOk |-> TRUE, title |-> t, chapters |-> c, chaptersUrl |-> u] :
        t \in Titles(url, w.sameTitle) \cup {Null},
        c \in DeclaredCounts(w.maxDeclared),
        u \in ChaptersUrls \cup {Null} }

\* A response to the GET of a chapter page
ChapterResponses ==
    { [getOk |-> FALSE, rawHtml |-> Null] }
    \cup { [getOk |-> TRUE, rawHtml |-> h] : h \in RawHtmls }

LandingPage(url) == <<"book", url>>
ChapterPage(url, num) == <<"chapter", url, num>>

\* -------------------------------------------------------------------- state
VARIABLES
    pc,            \* position of main(): the await it is suspended at
    idx,           \* position of the for-of loop in startUrls
    novelDetails,  \* result of scrapeNovelDetails for the current novel
    latestChapterNumber,
    startChapterNumber,
    i,             \* chapter loop variable
    chapterData,   \* result of scrapeChapterContent for chapter i
    stats,         \* the run statistics
    novels,        \* Novel collection (persists across runs)
    chapters,      \* Chapter collection (persists across runs)
    world,         \* the world explored (never changes)
    run,           \* number of the current process start
    site,          \* fixed site: the answer given for each page fetched so far
    \* history of the current novel in the current run
    fetchLog,      \* chapter GETs: <<[n, outcome]>>, outcome error | empty | ok
    cursorQuery,   \* highest-chapter query: none | ok | failed
    preNumbers,    \* chapter numbers persisted when the query was made
    \* history of the current run
    novelLog,      \* per novel handled: getFailed | fieldsMissing | noTarget |
                   \* saveFailed | saved
    dbResult,      \* outcome of the latest store call, connectDB included
                   \* (no MONGODB_URI counts as failed): none | ok | failed
    writeFailed,   \* an upsertNovel or upsertChapter failed in this run
    cursorFailed,  \* a highest-chapter query failed in this run
    \* history of the store
    skipped,       \* novels with a chapter whose fetch or extraction gave no body
    unsaved,       \* novels with a chapter whose upsertChapter failed
    prevRun        \* how the previous run ended: none | aborted | failedWrite | clean

prog   == <<idx, novelDetails, latestChapterNumber, startChapterNumber, i, chapterData>>
store  == <<novels, chapters>>
gNovel == <<fetchLog, cursorQuery, preNumbers>>
gRun   == <<novelLog, dbResult, writeFailed, cursorFailed>>
gStore == <<skipped, unsaved, prevRun>>

vars == <<pc, prog, stats, store, world, run, site, gNovel, gRun, gStore>>

startUrls == world.urls

NoDetails == [title |-> Null, chapters |-> Null, chaptersUrl |-> Null]
NoChapter == [chapterNumber |-> 0, content |-> Null]

ZeroStats ==
    [novelsProcessed |-> 0, chaptersAttempted |-> 0, chaptersScrapedSuccess |-> 0,
     chaptersScrapedError |-> 0, chaptersWithEmptyContent |-> 0,
     dbNovelUpdateSuccess |-> 0, dbChapterUpdateSuccess |-> 0, dbErrors |-> 0,
     novelsSkippedOrFailed |-> 0]

Inc(s, f) == [s EXCEPT ![f] = @ + 1]

\* ----------------------------------------------------------- store queries
\* Chapter identity (_id) of the document stored for (novel, chapterNumber);
\* a novel document's _id is modelled by the novelUrl it was inserted for.
ChapterId(novel, num) == <<novel, num>>

ChapterNumbersIn(coll, novel) ==
    { c.chapterNumber : c \in { d \in coll : d.novel = novel } }

ChapterNumbers(novel) == ChapterNumbersIn(chapters, novel)

Max(S) == CHOOSE m \in S : \A x \in S : x <= m

\* HighestChapterDoc read off the novel's chapters array: the referenced
\* chapter with the highest number
HighestReferencedDoc(novel) ==
    LET referenced == { c \in chapters :
                          /\ c.novel = novel
                          /\ \E n \in novels :
                               /\ n.novelUrl = novel
                               /\ \E k \in 1..Len(n.chapters) :
                                    n.chapters[k] = ChapterId(c.novel, c.chapterNumber) }
    IN { c \in referenced : \A d \in referenced : d.chapterNumber <= c.chapterNumber }

\* Chapter.findOne({novel}).sort({chapterNumber: -1}): the set holding the
\* document found, empty when there is none
HighestChapterDoc(novel) ==
    { c \in chapters : c.novel = novel /\ c.chapterNumber = Max(ChapterNumbers(novel)) }

\* the unique index on title: another document already carries the title
DuplicateTitle(coll, url, d) ==
    \E n \in coll : n.novelUrl # url /\ n.title = d.title

\* UpsertNovel as an insert of a new document on every call
UpsertNovelInsert(coll, url, d) ==
    coll \cup { [novelUrl |-> url, title |-> d.title,
                 totalChapters |-> d.chapters, chapters |-> <<>>] }

\* UpsertNovel without upsert: true: only an existing document is updated
UpsertNovelNoInsert(coll, url, d) ==
    { IF n.novelUrl = url
      THEN [n EXCEPT !.title = d.title, !.totalChapters = d.chapters]
      ELSE n : n \in coll }

\* UpsertNovel with a replacement document in place of $set
UpsertNovelReplace(coll, url, d) ==
    { n \in coll : n.novelUrl # url }
        \cup { [novelUrl |-> url, title |-> d.title,
                totalChapters |-> d.chapters, chapters |-> <<>>] }

\* Novel.findOneAndUpdate({novelUrl}, {$set: ...}, {upsert: true, new: true}):
\* $set replaces the scraped fields and leaves the chapters array alone.
UpsertNovel(coll, url, d) ==
    IF \E n \in coll : n.novelUrl = url
    THEN { IF n.novelUrl = url
           THEN [n EXCEPT !.title = d.title, !.totalChapters = d.chapters]
           ELSE n : n \in coll }
    ELSE coll \cup { [novelUrl |-> url, title |-> d.title,
                      totalChapters |-> d.chapters, chapters |-> <<>>] }

\* UpsertChapter that keeps only the latest chapter of the novel
UpsertChapterLatestOnly(coll, novel, num, content) ==
    { c \in coll : c.novel # novel }
        \cup { [novel |-> novel, chapterNumber |-> num, content |-> content] }

\* Chapter.findOneAndUpdate({novel, chapterNumber}, {$set: ...}, {upsert: true})
UpsertChapter(coll, novel, num, content) ==
    IF \E c \in coll : c.novel = novel /\ c.chapterNumber = num
    THEN { IF c.novel = novel /\ c.chapterNumber = num
           THEN [c EXCEPT !.content = content] ELSE c : c \in coll }
    ELSE coll \cup { [novel |-> novel, chapterNumber |-> num, content |-> content] }

InSeq(x, s) == \E k \in 1..Len(s) : s[k] = x

\* AddChapterReference with $push in place of $addToSet
AddChapterReferencePush(coll, novel, id) ==
    { IF n.novelUrl = novel
      THEN [n EXCEPT !.chapters = Append(@, id)] ELSE n : n \in coll }

\* Novel.updateOne({_id}, {$addToSet: {chapters: id}})
AddChapterReference(coll, novel, id) ==
    { IF n.novelUrl = novel /\ ~InSeq(id, n.chapters)
      THEN [n EXCEPT !.chapters = Append(@, id)] ELSE n : n \in coll }

\* ------------------------------------------------------------- environment
\* the answers the site can give for a page: any, or the one it gave before
Answers(page, all) == IF page \in DOMAIN site THEN {site[page]} ELSE all

Remember(page, r) ==
    IF world.fixedSite
    THEN [p \in DOMAIN site \cup {page} |-> IF p = page THEN r ELSE site[p]]
    ELSE site

\* --------------------------------------------------------------------- Init
Init ==
    /\ world \in Worlds
    /\ run = 1
    /\ site = <<>>
    /\ pc = "connect"
    /\ idx = 0
    /\ novelDetails = NoDetails
    /\ latestChapterNumber = 0
    /\ startChapterNumber = 0
    /\ i = 0
    /\ chapterData = NoChapter
    /\ stats = ZeroStats
    /\ novels = {}
    /\ chapters = {}
    /\ fetchLog = <<>>
    /\ cursorQuery = "none"
    /\ preNumbers = {}
    /\ novelLog = <<>>
    /\ dbResult = "none"
    /\ writeFailed = FALSE
    /\ cursorFailed = FALSE
    /\ skipped = {}
    /\ unsaved = {}
    /\ prevRun = "none"

\* ------------------------------------------------------------ control flow
\* NextUrl that goes to the GET of the landing page without the delay
NextUrlNoDelay(k) ==
    IF k <= Len(startUrls)
    THEN /\ idx' = k
         /\ pc' = "detailsGet"
    ELSE /\ idx' = k
         /\ pc' = "summary"

\* NextUrl that passes over a list entry
NextUrlSkipping(k) ==
    IF k + 1 <= Len(startUrls)
    THEN /\ idx' = k + 1
         /\ pc' = "detailsDelay"
    ELSE /\ idx' = k + 1
         /\ pc' = "summary"

\* for (const startUrl of startUrls): move to list position k, or leave the
\* loop for the finally block
NextUrl(k) ==
    IF k <= Len(startUrls)
    THEN /\ idx' = k
         /\ pc' = "detailsDelay"
    ELSE /\ idx' = k
         /\ pc' = "summary"

\* EnterChapter without chaptersAttempted++
EnterChapterUncounted(j, latest, st) ==
    IF j <= latest
    THEN /\ i' = j
         /\ stats' = st
         /\ pc' = "chapDelay"
    ELSE /\ i' = j
         /\ stats' = st
         /\ pc' = "novelDelay"

\* EnterChapter with the loop test i <= latestChapterNumber + 1
EnterChapterInclusive(j, latest, st) ==
    IF j <= latest + 1
    THEN /\ i' = j
         /\ stats' = Inc(st, "chaptersAttempted")
         /\ pc' = "chapDelay"
    ELSE /\ i' = j
         /\ stats' = st
         /\ pc' = "novelDelay"

\* for (let i = ...; i <= latestChapterNumber; i++): the loop test and, when
\* it passes, the synchronous head of the iteration (chaptersAttempted++)
EnterChapter(j, latest, st) ==
    IF j <= latest
    THEN /\ i' = j
         /\ stats' = Inc(st, "chaptersAttempted")
         /\ pc' = "chapDelay"
    ELSE /\ i' = j
         /\ stats' = st
         /\ pc' = "novelDelay"

\* ResolveTarget without the test parsedChapters > 0
ResolveTargetAnyInteger(declared) ==
    IF declared # Null
    THEN LET parsedChapters == ParseInt(RemoveCommas(declared)) IN
         IF parsedChapters # NaN THEN parsedChapters ELSE 0
    ELSE 0

\* latestChapterNumber of main: the target chapter number, 0 for null
ResolveTarget(declared) ==
    IF declared # Null
    THEN LET parsedChapters == ParseInt(RemoveCommas(declared)) IN
         IF parsedChapters # NaN /\ parsedChapters > 0 THEN parsedChapters ELSE 0
    ELSE 0

\* ResumeCursor without the + 1: resumes at the highest chapter itself
ResumeCursorAtHighest(docs) ==
    IF docs # {} /\ (CHOOSE d \in docs : TRUE).chapterNumber # 0
    THEN (CHOOSE d \in docs : TRUE).chapterNumber
    ELSE 1

\* ResumeCursor that adds 1 to a default of 1 when there is no chapter
ResumeCursorOffByOne(docs) ==
    IF docs # {} /\ (CHOOSE d \in docs : TRUE).chapterNumber # 0
    THEN (CHOOSE d \in docs : TRUE).chapterNumber + 1
    ELSE 2

\* ResumeCursor that ignores the query result
ResumeCursorFromOne(docs) == 1

\* startChapterNumber of main from the result of the highest-chapter query
ResumeCursor(docs) ==
    IF docs # {} /\ (CHOOSE d \in docs : TRUE).chapterNumber # 0
    THEN (CHOOSE d \in docs : TRUE).chapterNumber + 1
    ELSE 1

\* chapterContent of scrapeChapterContent
ChapterContent(rawHtmlContent) ==
    IF Truthy(rawHtmlContent) THEN Trim(rawHtmlContent) ELSE Null

\* HasContent as a test against null only
HasContentNotNull(data) == data.content # Null

\* if (chapterData.content) of main
HasContent(data) == Truthy(data.content)

FetchOutcome(r) ==
    IF ~r.getOk THEN "error"
    ELSE IF Truthy(ChapterContent(r.rawHtml)) THEN "ok" ELSE "empty"

\* SkipNovel without novelsSkippedOrFailed++
SkipNovelUncounted ==
    /\ stats' = stats
    /\ NextUrl(idx + 1)

\* SkipNovel with break in place of continue
SkipNovelBreak ==
    /\ stats' = Inc(stats, "novelsSkippedOrFailed")
    /\ idx' = idx
    /\ pc' = "summary"

\* stats.novelsSkippedOrFailed++; continue;
SkipNovel ==
    /\ stats' = Inc(stats, "novelsSkippedOrFailed")
    /\ NextUrl(idx + 1)

\* SaveFailedNext with the reference update outside the if (savedChapter)
SaveFailedThenReference == "addRef"

\* SaveFailedNext with a break in the catch block
SaveFailedBreak == "novelDelay"

\* SaveFailedNext with process.exit(1) in the catch block
SaveFailedExit == "exited"

\* where main continues after the catch of a failed Chapter.findOneAndUpdate
SaveFailedNext == "postDelay"

\* ChapterSaved without the count
ChapterSavedUncounted(st) == st

\* stats.dbChapterUpdateSuccess++ of the if (savedChapter) branch
ChapterSaved(st) == Inc(st, "dbChapterUpdateSuccess")

\* FallbackCursor that takes the novel for up to date
FallbackCursorUpToDate(latest) == latest + 1

\* startChapterNumber after a failed highest-chapter query
FallbackCursor(latest) == 1

\* NextChapter in steps of two
NextChapterSkipping(j) == j + 2

\* i++ of the chapter loop
NextChapter(j) == j + 1

\* EmptyContentNext with the chapter fetched again
EmptyContentRetry == "chapDelay"

\* where main continues after a chapter without content (fetch error or
\* empty body): the else branch, then the delay after the chapter
EmptyContentNext == "postDelay"

\* NovelFailedNext with the error escaping the loop over startUrls
NovelFailedAbort == "summary"

\* where main continues after a failed Novel.findOneAndUpdate: the error is
\* re-thrown to the catch of the novel's try block, which falls through to
\* the inter-novel delay
NovelFailedNext == "novelDelay"

\* EssentialsMissing that tests the title only
EssentialsMissingTitleOnly(d) == ~Truthy(d.title)

\* if (!novelDetails.title || !novelDetails.chaptersUrl) of main
EssentialsMissing(d) == ~Truthy(d.title) \/ ~Truthy(d.chaptersUrl)

MetadataOutcome(r) ==
    IF ~r.getOk THEN "getFailed"
    ELSE IF ~Truthy(r.title) \/ ~Truthy(r.chaptersUrl) THEN "fieldsMissing"
    ELSE "noTarget"

\* ------------------------------------------------------------------ actions
\* ConnectFailedNext with the error thrown to the catch of main instead
ConnectFailedThrow == "summary"

\* where the process goes when connectDB finds no MONGODB_URI or
\* mongoose.connect rejects: process.exit(1)
ConnectFailedNext == "exited"

\* connectDB(): a missing MONGODB_URI or a failed connect ends the process
ConnectDB ==
    /\ pc = "connect"
    /\ \E uriDefined \in BOOLEAN, connected \in BOOLEAN :
         IF uriDefined /\ connected
         THEN /\ NextUrl(1)
              /\ dbResult' = "ok"
         ELSE /\ pc' = ConnectFailedNext
              /\ idx' = idx
              /\ dbResult' = "failed"
    /\ UNCHANGED <<novelDetails, latestChapterNumber, startChapterNumber, i,
                   chapterData, stats, store, world, run, site, gNovel, novelLog,
                   writeFailed, cursorFailed, gStore>>

\* scrapeNovelDetails: await delay(REQUEST_DELAY_MS)
DelayBeforeDetails ==
    /\ pc = "detailsDelay"
    /\ pc' = "detailsGet"
    /\ UNCHANGED <<prog, stats, store, world, run, site, gNovel, gRun, gStore>>

\* scrapeNovelDetails: axios.get and extraction, then main up to upsertNovel.
\* A skipped novel leaves the loop body with continue.
ScrapeNovelDetails ==
    /\ pc = "detailsGet"
    /\ \E r \in Answers(LandingPage(startUrls[idx]), LandingResponses(startUrls[idx], world)) :
         LET d == [title |-> r.title, chapters |-> r.chapters, chaptersUrl |-> r.chaptersUrl]
         IN
         /\ site' = Remember(LandingPage(startUrls[idx]), r)
         /\ IF EssentialsMissing(d)
            THEN /\ SkipNovel
                 /\ novelLog' = Append(novelLog, MetadataOutcome(r))
                 /\ UNCHANGED <<novelDetails, latestChapterNumber>>
            ELSE IF ResolveTarget(d.chapters) = 0
            THEN /\ SkipNovel
                 /\ novelLog' = Append(novelLog, MetadataOutcome(r))
                 /\ UNCHANGED <<novelDetails, latestChapterNumber>>
            ELSE /\ novelDetails' = d
                 /\ latestChapterNumber' = ResolveTarget(d.chapters)
                 /\ pc' = "upsertNovel"
                 /\ UNCHANGED <<idx, stats, novelLog>>
    /\ fetchLog' = <<>>
    /\ cursorQuery' = "none"
    /\ preNumbers' = {}
    /\ UNCHANGED <<startChapterNumber, i, chapterData, store, world, run,
                   dbResult, writeFailed, cursorFailed, gStore>>

\* Novel.findOneAndUpdate: an error is counted and re-thrown to the catch of
\* the novel, which counts the novel as failed and falls through to the
\* inter-novel delay.  With upsert and new set the call returns the document,
\* so the branch for a missing document is not reachable.  The call fails
\* with a duplicate key when another document carries the title.
SaveNovel ==
    /\ pc = "upsertNovel"
    /\ \E dbOk \in IF DuplicateTitle(novels, startUrls[idx], novelDetails)
                   THEN {FALSE} ELSE BOOLEAN :
         IF dbOk
         THEN /\ novels' = UpsertNovel(novels, startUrls[idx], novelDetails)
              /\ stats' = Inc(Inc(stats, "novelsProcessed"), "dbNovelUpdateSuccess")
              /\ pc' = "highest"
              /\ novelLog' = Append(novelLog, "saved")
              /\ dbResult' = "ok"
              /\ writeFailed' = writeFailed
         ELSE /\ novels' = novels
              /\ stats' = Inc(Inc(stats, "dbErrors"), "novelsSkippedOrFailed")
              /\ pc' = NovelFailedNext
              /\ novelLog' = Append(novelLog, "saveFailed")
              /\ dbResult' = "failed"
              /\ writeFailed' = TRUE
    /\ UNCHANGED <<prog, chapters, world, run, site, gNovel, cursorFailed, gStore>>

\* Chapter.findOne(...).sort(...): the resume cursor, then the up-to-date test
\* and the head of the first loop iteration
QueryHighestChapter ==
    /\ pc = "highest"
    /\ \E dbOk \in BOOLEAN :
         LET st    == IF dbOk THEN stats ELSE Inc(stats, "dbErrors")
             start == IF dbOk THEN ResumeCursor(HighestChapterDoc(startUrls[idx]))
                      ELSE FallbackCursor(latestChapterNumber)
         IN /\ startChapterNumber' = start
            /\ EnterChapter(start, latestChapterNumber, st)
            /\ cursorQuery' = IF dbOk THEN "ok" ELSE "failed"
            /\ dbResult' = IF dbOk THEN "ok" ELSE "failed"
            /\ cursorFailed' = (cursorFailed \/ ~dbOk)
    /\ preNumbers' = ChapterNumbers(startUrls[idx])
    /\ UNCHANGED <<idx, novelDetails, latestChapterNumber, chapterData, store,
                   world, run, site, fetchLog, novelLog, writeFailed, gStore>>

\* scrapeChapterContent: await delay(REQUEST_DELAY_MS)
DelayBeforeChapter ==
    /\ pc = "chapDelay"
    /\ pc' = "chapGet"
    /\ UNCHANGED <<prog, stats, store, world, run, site, gNovel, gRun, gStore>>

\* scrapeChapterContent: axios.get and extraction (an error is caught there
\* and reported as content null), then main's test of chapterData.content.
\* Nothing in the try block of the loop body throws, so its catch, the only
\* place that counts chaptersScrapedError, is never entered.
ScrapeChapterContent ==
    /\ pc = "chapGet"
    /\ \E r \in Answers(ChapterPage(startUrls[idx], i), ChapterResponses) :
         LET data == [chapterNumber |-> i,
                      content |-> IF r.getOk THEN ChapterContent(r.rawHtml) ELSE Null]
         IN
         /\ site' = Remember(ChapterPage(startUrls[idx], i), r)
         /\ chapterData' = data
         /\ fetchLog' = Append(fetchLog, [n |-> i, outcome |-> FetchOutcome(r)])
         /\ IF HasContent(data)
            THEN /\ stats' = Inc(stats, "chaptersScrapedSuccess")
                 /\ pc' = "dbDelay"
            ELSE /\ stats' = Inc(stats, "chaptersWithEmptyContent")
                 /\ pc' = EmptyContentNext
         /\ skipped' = IF FetchOutcome(r) = "ok" THEN skipped
                       ELSE skipped \cup {startUrls[idx]}
    /\ UNCHANGED <<idx, novelDetails, latestChapterNumber, startChapterNumber, i,
                   store, world, run, cursorQuery, preNumbers, gRun, unsaved, prevRun>>

\* await delay(DB_OPERATION_DELAY_MS)
DelayBeforeSave ==
    /\ pc = "dbDelay"
    /\ pc' = "upsertChapter"
    /\ UNCHANGED <<prog, stats, store, world, run, site, gNovel, gRun, gStore>>

\* Chapter.findOneAndUpdate for chapter i; the reference is added only when
\* the chapter document came back
SaveChapter ==
    /\ pc = "upsertChapter"
    /\ \E dbOk \in BOOLEAN :
         IF dbOk
         THEN /\ chapters' = UpsertChapter(chapters, startUrls[idx],
                                           chapterData.chapterNumber, chapterData.content)
              /\ stats' = ChapterSaved(stats)
              /\ pc' = "addRef"
              /\ dbResult' = "ok"
              /\ UNCHANGED <<writeFailed, unsaved>>
         ELSE /\ chapters' = chapters
              /\ stats' = Inc(stats, "dbErrors")
              /\ pc' = SaveFailedNext
              /\ dbResult' = "failed"
              /\ writeFailed' = TRUE
              /\ unsaved' = unsaved \cup {startUrls[idx]}
    /\ UNCHANGED <<prog, novels, world, run, site, gNovel, novelLog, cursorFailed,
                   skipped, prevRun>>

\* Novel.updateOne({_id}, {$addToSet: {chapters: savedChapter._id}})
AddReference ==
    /\ pc = "addRef"
    /\ \E dbOk \in BOOLEAN :
         IF dbOk
         THEN /\ novels' = AddChapterReference(novels, startUrls[idx],
                               ChapterId(startUrls[idx], chapterData.chapterNumber))
              /\ stats' = stats
              /\ dbResult' = "ok"
         ELSE /\ novels' = novels
              /\ stats' = Inc(stats, "dbErrors")
              /\ dbResult' = "failed"
    /\ pc' = "postDelay"
    /\ UNCHANGED <<prog, chapters, world, run, site, gNovel, novelLog, writeFailed,
                   cursorFailed, gStore>>

\* await delay(REQUEST_DELAY_MS) after a chapter, then i++ and the loop test
DelayAfterChapter ==
    /\ pc = "postDelay"
    /\ EnterChapter(NextChapter(i), latestChapterNumber, stats)
    /\ UNCHANGED <<idx, novelDetails, latestChapterNumber, startChapterNumber,
                   chapterData, store, world, run, site, gNovel, gRun, gStore>>

\* await delay(INTER_NOVEL_DELAY_MS), then the next URL
InterNovelDelay ==
    /\ pc = "novelDelay"
    /\ NextUrl(idx + 1)
    /\ UNCHANGED <<novelDetails, latestChapterNumber, startChapterNumber, i,
                   chapterData, stats, store, world, run, site, gNovel, gRun, gStore>>

\* the finally block: the end-of-run summary, the stats file, disconnect
Summary ==
    /\ pc = "summary"
    /\ pc' = "done"
    /\ UNCHANGED <<prog, stats, store, world, run, site, gNovel, gRun, gStore>>

Running == pc \notin {"done", "crashed", "exited"}

\* what a process start or end does to everything but the store
FreshProcess ==
    /\ idx' = 0
    /\ novelDetails' = NoDetails
    /\ latestChapterNumber' = 0
    /\ startChapterNumber' = 0
    /\ i' = 0
    /\ chapterData' = NoChapter
    /\ stats' = ZeroStats
    /\ fetchLog' = <<>>
    /\ cursorQuery' = "none"
    /\ preNumbers' = {}
    /\ novelLog' = <<>>
    /\ dbResult' = "none"
    /\ writeFailed' = FALSE
    /\ cursorFailed' = FALSE

\* abrupt termination of the process at any await: only the store survives
Crash ==
    /\ Running
    /\ pc' = "crashed"
    /\ FreshProcess
    /\ UNCHANGED <<store, world, run, site, gStore>>

\* the next start of the program on the same store
Restart ==
    /\ ~Running
    /\ run < world.maxStarts
    /\ run' = run + 1
    /\ pc' = "connect"
    /\ FreshProcess
    /\ prevRun' = IF pc # "done" THEN "aborted"
                   ELSE IF writeFailed THEN "failedWrite" ELSE "clean"
    /\ UNCHANGED <<store, world, site, skipped, unsaved>>

Step ==
    \/ ConnectDB
    \/ DelayBeforeDetails
    \/ ScrapeNovelDetails
    \/ SaveNovel
    \/ QueryHighestChapter
    \/ DelayBeforeChapter
    \/ ScrapeChapterContent
    \/ DelayBeforeSave
    \/ SaveChapter
    \/ AddReference
    \/ DelayAfterChapter
    \/ InterNovelDelay
    \/ Summary

Next ==
    \/ Step
    \/ Crash
    \/ Restart

Spec == Init /\ [][Next]_vars

\* the run without abrupt termination; every await of main settles
SpecLive == Init /\ [][Step \/ Restart]_vars /\ WF_vars(Step)

\* ------------------------------------------------------------------ claims
Range(a, b) == [k \in 1..(b - a + 1) |-> a + k - 1]

FetchedNumbers == [k \in 1..Len(fetchLog) |-> fetchLog[k].n]

LastFetchIs(log, num, outcome) ==
    /\ log # <<>>
    /\ log[Len(log)].n = num
    /\ log[Len(log)].outcome = outcome

Crashing == pc' = "crashed"

HasChapter(novel, num) ==
    \E c \in chapters : c.novel = novel /\ c.chapterNumber = num

\* the chapter-reference collections, per novel document
References == { <<n.novelUrl, n.chapters>> : n \in novels }

\* the references held: <<novel, chapter identity>>
ReferencePairs ==
    UNION { { <<n.novelUrl, n.chapters[k]>> : k \in 1..Len(n.chapters) } : n \in novels }

\* the chapter loop of the current novel has run to its end
LoopFinished == pc = "novelDelay" /\ cursorQuery # "none"

\* C1 as stated: with chapters 1..K persisted and a declared total N > K, the
\* chapter GETs of the novel are exactly K+1..N, each once, in every case
C1_Original ==
    \A K \in 0..MaxChapters :
        (LoopFinished /\ preNumbers = 1..K /\ K < latestChapterNumber)
            => FetchedNumbers = Range(K + 1, latestChapterNumber)

\* C1 amended: with chapters 1..K persisted and a declared total N > K, when
\* the highest-chapter query succeeds the chapter GETs of the novel are
\* exactly K+1..N, each once, and none of 1..K
C1_ResumeCorrectness ==
    \A K \in 0..MaxChapters :
        (LoopFinished /\ cursorQuery = "ok" /\ preNumbers = 1..K
            /\ K < latestChapterNumber)
            => FetchedNumbers = Range(K + 1, latestChapterNumber)

C1_Witness ==
    /\ LoopFinished
    /\ cursorQuery = "ok"
    /\ preNumbers = {1}
    /\ latestChapterNumber = 2
    /\ FetchedNumbers = <<2>>

Contiguous(novel) ==
    ChapterNumbers(novel) = 1..Cardinality(ChapterNumbers(novel))

\* C2 as stated: the persisted chapter numbers of a novel are {1..K} unless a
\* chapter of the novel was skipped because its fetch or extraction failed
C2_Original ==
    \A u \in 1..MaxNovels : Contiguous(u) \/ u \in skipped

\* C2 amended: the persisted chapter numbers of a novel are {1..K} unless a
\* chapter of the novel was skipped because its fetch or extraction failed or
\* an upsertChapter of the novel failed
C2_ContiguousPrefix ==
    \A u \in 1..MaxNovels : Contiguous(u) \/ u \in skipped \/ u \in unsaved

C2_Witness ==
    /\ pc = "crashed"
    /\ 1 \in unsaved
    /\ 1 \notin skipped
    /\ ChapterNumbers(1) = {2}

Count(log, outcome) ==
    Cardinality({ k \in 1..Len(log) : log[k].outcome = outcome })

\* C3 as stated: one novel, nothing persisted, the GET of exactly one chapter
\* fails and everything else succeeds: every other chapter is persisted and
\* the statistics are attempted = N, success = N - 1, error = 1
C3_Original ==
    (/\ pc = "done"
     /\ startUrls = <<1>>
     /\ novelLog = <<"saved">>
     /\ cursorQuery = "ok"
     /\ preNumbers = {}
     /\ stats.dbErrors = 0
     /\ Count(fetchLog, "error") = 1
     /\ Count(fetchLog, "empty") = 0)
    => /\ stats.chaptersAttempted = latestChapterNumber
       /\ stats.chaptersScrapedSuccess = latestChapterNumber - 1
       /\ stats.chaptersScrapedError = 1
       /\ Cardinality(ChapterNumbers(1)) = latestChapterNumber - 1

\* C4: a chapter GET whose extraction gives an empty body writes nothing,
\* adds 1 to chaptersWithEmptyContent, leaves chaptersScrapedError and
\* chaptersScrapedSuccess alone and goes on to the delay after the chapter;
\* chapters are written and referenced only after a GET that gave a body
C4_Step ==
    /\ (pc = "chapGet" /\ Len(fetchLog') = Len(fetchLog) + 1
            /\ LastFetchIs(fetchLog', i, "empty"))
       => /\ chapters' = chapters
          /\ novels' = novels
          /\ stats'.chaptersWithEmptyContent = stats.chaptersWithEmptyContent + 1
          /\ stats'.chaptersScrapedError = stats.chaptersScrapedError
          /\ stats'.chaptersScrapedSuccess = stats.chaptersScrapedSuccess
          /\ pc' = "postDelay"
    /\ (chapters' # chapters \/ ReferencePairs' # ReferencePairs)
       => LastFetchIs(fetchLog, i, "ok")

C4_EmptyContent == [][C4_Step]_vars

C4_Witness ==
    /\ pc = "postDelay"
    /\ LastFetchIs(fetchLog, i, "empty")
    /\ chapterData.content = <<>>
    /\ stats.chaptersWithEmptyContent = 1
    /\ ~HasChapter(startUrls[idx], i)

\* C5: a failed metadata GET changes nothing but novelsSkippedOrFailed (+1)
\* and the list position, so the novels before and after it are ingested as
\* if it were absent; for [A, B, C] with B's GET failed and A and C saved the
\* run ends with novelsProcessed = 2 and novelsSkippedOrFailed = 1
C5_Final ==
    (pc = "done" /\ novelLog = <<"saved", "getFailed", "saved">>)
        => /\ stats.novelsProcessed = 2
           /\ stats.novelsSkippedOrFailed = 1

C5_Step ==
    (pc = "detailsGet" /\ novelLog' = Append(novelLog, "getFailed"))
        => /\ store' = store
           /\ stats' = Inc(stats, "novelsSkippedOrFailed")
           /\ UNCHANGED <<novelDetails, latestChapterNumber, startChapterNumber,
                          i, chapterData>>
           /\ idx' = idx + 1
           /\ pc' = IF idx + 1 <= Len(startUrls) THEN "detailsDelay" ELSE "summary"

C5_NovelIsolation == [][C5_Step /\ C5_Final']_vars

C5_Witness ==
    /\ pc = "done"
    /\ novelLog = <<"saved", "getFailed", "saved">>
    /\ ChapterNumbers(1) = {1}
    /\ ChapterNumbers(2) = {}
    /\ ChapterNumbers(3) = {1}
    /\ Cardinality(novels) = 2

PrevDone == prevRun \in {"failedWrite", "clean"}

\* the second run leaves chapters and references as they are and fetches no
\* chapter at or below the highest one persisted
SecondRunIdle ==
    /\ chapters' = chapters
    /\ ReferencePairs' = ReferencePairs
    /\ (pc' = "chapGet" =>
           \A n \in ChapterNumbers(startUrls[idx']) : i' > n)

C7_NoDanglingReference ==
    /\ \A n \in novels : \A k \in 1..Len(n.chapters) :
         \E c \in chapters : /\ c.novel = n.novelUrl
                             /\ ChapterId(c.novel, c.chapterNumber) = n.chapters[k]
    /\ pc = "addRef" =>
         /\ dbResult = "ok"
         /\ HasChapter(startUrls[idx], chapterData.chapterNumber)

C7_Witness ==
    /\ pc = "crashed"
    /\ \E n \in novels : Len(n.chapters) = 1
    /\ Cardinality(chapters) = 2

\* C8 as stated: after upsertChapter, failed or not, the reference update is
\* attempted
C8_Original ==
    [][(pc = "upsertChapter" /\ ~Crashing) => pc' = "addRef"]_vars

\* C8 amended: after a chapter is scraped with a body upsertChapter is
\* attempted; the reference update is attempted exactly when upsertChapter
\* succeeded, and after a failed upsertChapter the loop goes on without it
C8_Step ==
    /\ (pc = "chapGet" /\ LastFetchIs(fetchLog', i, "ok")
            /\ Len(fetchLog') = Len(fetchLog) + 1)
       => pc' = "dbDelay"
    /\ (pc = "dbDelay" /\ ~Crashing) => pc' = "upsertChapter"
    /\ (pc = "upsertChapter" /\ ~Crashing)
       => /\ (pc' = "addRef") <=> (dbResult' = "ok")
          /\ dbResult' = "failed" => pc' = "postDelay"

C8_PersistSteps == [][C8_Step]_vars

C8_Witness ==
    /\ pc = "postDelay"
    /\ dbResult = "failed"
    /\ LastFetchIs(fetchLog, i, "ok")
    /\ stats.chaptersScrapedSuccess = 1
    /\ stats.dbChapterUpdateSuccess = 0
    /\ novels # {}
    /\ \A n \in novels : n.chapters = <<>>

\* C9: a failed upsertChapter or reference update adds 1 to dbErrors and goes
\* on to the delay after the chapter; from there, with i < N, the loop goes to
\* chapter i + 1, fetches it and, when it has a body, upserts it
C9_Step ==
    /\ (pc \in {"upsertChapter", "addRef"} /\ dbResult' = "failed" /\ ~Crashing)
       => /\ stats'.dbErrors = stats.dbErrors + 1
          /\ pc' = "postDelay"
          /\ i' = i
          /\ latestChapterNumber' = latestChapterNumber
    /\ (pc = "postDelay" /\ i < latestChapterNumber /\ ~Crashing)
       => /\ pc' = "chapDelay"
          /\ i' = i + 1
    /\ (pc = "chapDelay" /\ ~Crashing)
       => /\ pc' = "chapGet"
          /\ i' = i
    /\ (pc = "chapGet" /\ ~Crashing)
       => /\ Len(fetchLog') = Len(fetchLog) + 1
          /\ fetchLog'[Len(fetchLog')].n = i
          /\ LastFetchIs(fetchLog', i, "ok") => pc' = "dbDelay"
    /\ (pc = "dbDelay" /\ ~Crashing) => pc' = "upsertChapter"
    /\ (pc = "upsertChapter" /\ dbResult' = "ok" /\ ~Crashing)
       => HasChapter(startUrls[idx], i)'

C9_LoopContinues == [][C9_Step]_vars

C9_Witness ==
    /\ pc = "done"
    /\ run = 1
    /\ stats.dbErrors = 1
    /\ 1 \in unsaved
    /\ FetchedNumbers = <<1, 2>>
    /\ ChapterNumbers(1) = {2}

Connected == pc \notin {"connect", "exited", "crashed", "done"}

\* C10: once connected, the run reaches the end of its summary, whatever the
\* fetches, extractions and store calls answer
C10_Terminates == Connected ~> (pc = "done")

C10_Witness ==
    /\ pc = "done"
    /\ Len(startUrls) = 2
    /\ stats.novelsSkippedOrFailed = 1
    /\ stats.dbErrors >= 1
    /\ stats.chaptersWithEmptyContent + stats.chaptersScrapedSuccess >= 1

\* the run has handled no novel: no page fetched, no store call made
NothingDone ==
    /\ idx = 0
    /\ stats = ZeroStats
    /\ novelLog = <<>>
    /\ fetchLog = <<>>
    /\ cursorQuery = "none"

\* C11: a connectDB that finds no connection string or cannot reach the
\* store ends the process on the spot, with no page fetched, no record
\* written and no novel begun; the ended process takes no further step
C11_Step ==
    /\ (pc = "connect" /\ dbResult' = "failed")
       => /\ pc' = "exited"
          /\ store' = store
          /\ site' = site
          /\ NothingDone'
    /\ pc' = "exited" => NothingDone'
    /\ pc = "exited" => pc' = "connect" /\ run' = run + 1

C11_FatalStartup == [][C11_Step]_vars

C11_Witness ==
    /\ pc = "exited"
    /\ dbResult = "failed"
    /\ run = 1
    /\ Len(startUrls) >= 1
    /\ novels = {}
    /\ chapters = {}

\* C12: within a run the list position moves one entry at a time and only
\* when the novel at hand is finished; every change of the store is to a
\* document of the novel at hand; the k-th novel handled is the k-th entry of
\* the list, and a run that ends has handled each entry exactly once
C12_Step ==
    /\ (~Crashing /\ run' = run) => idx' \in {idx, idx + 1}
    /\ idx' = idx + 1
       => /\ pc \in {"connect", "detailsGet", "novelDelay"}
          /\ pc' = IF idx' <= Len(startUrls) THEN "detailsDelay" ELSE "summary"
    /\ \A c \in (chapters' \ chapters) \cup (chapters \ chapters') :
         c.novel = startUrls[idx]
    /\ \A n \in (novels' \ novels) \cup (novels \ novels') :
         n.novelUrl = startUrls[idx]
    /\ Len(novelLog') = Len(novelLog) + 1 => Len(novelLog') = idx
    /\ (pc' = "done" /\ pc # "done")
       => /\ idx' = Len(startUrls) + 1
          /\ Len(novelLog') = Len(startUrls)

C12_Sequential == [][C12_Step]_vars

C12_Witness ==
    /\ pc = "done"
    /\ novelLog = <<"saved", "saved", "saved">>
    /\ Cardinality(novels) = 3
    /\ \A u \in 1..3 : ChapterNumbers(u) = {1}
    /\ ReferencePairs = { <<u, ChapterId(u, 1)>> : u \in 1..3 }

\* the positions of main between a saved novel and the end of its chapters
ChapterSteps ==
    {"highest", "chapDelay", "chapGet", "dbDelay", "upsertChapter", "addRef",
     "postDelay"}

\* C13: a failed upsertNovel adds exactly 1 to novelsSkippedOrFailed, leaves
\* novelsProcessed, chaptersAttempted and the store alone and goes to the
\* inter-novel delay with no chapter of the novel fetched; the delay leads to
\* the next list entry, and a run that ends has handled every entry
C13_Step ==
    /\ (pc = "upsertNovel" /\ dbResult' = "failed")
       => /\ stats'.novelsSkippedOrFailed = stats.novelsSkippedOrFailed + 1
          /\ stats'.novelsProcessed = stats.novelsProcessed
          /\ stats'.chaptersAttempted = stats.chaptersAttempted
          /\ store' = store
          /\ fetchLog' = <<>>
          /\ idx' = idx
          /\ pc' = "novelDelay"
    /\ (pc = "novelDelay" /\ ~Crashing)
       => /\ idx' = idx + 1
          /\ stats' = stats
          /\ pc' = IF idx < Len(startUrls) THEN "detailsDelay" ELSE "summary"
    /\ pc' \in ChapterSteps => novelLog'[idx'] = "saved"
    /\ (pc' = "done" /\ pc # "done") => Len(novelLog') = Len(startUrls)

C13_EscapedException == [][C13_Step]_vars

C13_Witness ==
    /\ pc = "done"
    /\ novelLog = <<"saveFailed", "saved">>
    /\ stats.novelsSkippedOrFailed = 1
    /\ stats.novelsProcessed = 1
    /\ stats.chaptersAttempted = 1
    /\ ChapterNumbers(1) = {}
    /\ ChapterNumbers(2) = {1}

\* C14: a first run (empty store) over the list [X], with X declaring N
\* chapters, every chapter GET giving a non-empty body and no store call
\* failing, ends with one Novel document for X, the Chapter documents
\* numbered 1..N, X's chapters array holding exactly their N identities, and
\* novelsProcessed = 1, chaptersAttempted = N, chaptersScrapedSuccess = N
C14_EndToEnd ==
    (/\ pc = "done"
     /\ run = 1
     /\ startUrls = <<1>>
     /\ novelLog = <<"saved">>
     /\ Count(fetchLog, "ok") = Len(fetchLog)
     /\ stats.dbErrors = 0)
    => /\ Cardinality(novels) = 1
       /\ \A n \in novels :
            /\ n.novelUrl = 1
            /\ n.chapters = [k \in 1..latestChapterNumber |-> ChapterId(1, k)]
       /\ Cardinality(chapters) = latestChapterNumber
       /\ ChapterNumbers(1) = 1..latestChapterNumber
       /\ stats.novelsProcessed = 1
       /\ stats.chaptersAttempted = latestChapterNumber
       /\ stats.chaptersScrapedSuccess = latestChapterNumber

C14_Witness ==
    /\ pc = "done"
    /\ run = 1
    /\ startUrls = <<1>>
    /\ latestChapterNumber = 2
    /\ stats.dbErrors = 0
    /\ stats.chaptersScrapedSuccess = 2
    /\ ChapterNumbers(1) = {1, 2}
    /\ \E n \in novels : n.chapters = <<ChapterId(1, 1), ChapterId(1, 2)>>

SavedCount == Cardinality({ k \in 1..Len(novelLog) : novelLog[k] = "saved" })

\* C15: when the highest-chapter query finds a chapter whose number + 1
\* exceeds the declared target, the cursor is that number + 1 and the chapter
\* loop is not entered: no chapter is fetched, chaptersAttempted and the
\* Chapter collection are unchanged, and the novel stays counted under
\* novelsProcessed
C15_Step ==
    (/\ pc = "highest"
     /\ dbResult' = "ok"
     /\ ChapterNumbers(startUrls[idx]) # {}
     /\ Max(ChapterNumbers(startUrls[idx])) + 1 > latestChapterNumber)
    => /\ startChapterNumber' = Max(ChapterNumbers(startUrls[idx])) + 1
       /\ pc' = "novelDelay"
       /\ fetchLog' = <<>>
       /\ stats'.chaptersAttempted = stats.chaptersAttempted
       /\ chapters' = chapters
       /\ novelLog'[idx] = "saved"
       /\ stats'.novelsProcessed = SavedCount'

C15_AlreadyComplete == [][C15_Step]_vars

C15_Witness ==
    /\ pc = "novelDelay"
    /\ run = 2
    /\ cursorQuery = "ok"
    /\ startChapterNumber = 3
    /\ latestChapterNumber = 2
    /\ fetchLog = <<>>
    /\ stats.chaptersAttempted = 0
    /\ stats.novelsProcessed = 1

\* the landing page of the novel at hand, as the fixed site answers it
LandingAnswer == site'[LandingPage(startUrls[idx])]

\* what a skip of the novel at hand does
SkipEffect ==
    /\ stats' = Inc(stats, "novelsSkippedOrFailed")
    /\ store' = store
    /\ fetchLog' = <<>>
    /\ idx' = idx + 1
    /\ pc' = IF idx < Len(startUrls) THEN "detailsDelay" ELSE "summary"

\* C16: a landing page whose GET fails or that lacks the title or the
\* chapter-list location makes the novel Skipped: novelsSkippedOrFailed grows
\* by exactly 1, novelsProcessed and the store stay as they are, main moves
\* to the next list entry, and chapters are only ever fetched for a novel
\* that was not skipped
C16_Step ==
    /\ (pc = "detailsGet" /\ ~Crashing /\ world.fixedSite
            /\ (\/ ~LandingAnswer.getOk
                \/ LandingAnswer.title = Null
                \/ LandingAnswer.chaptersUrl = Null))
       => novelLog' = Append(novelLog, IF LandingAnswer.getOk THEN "fieldsMissing"
                                        ELSE "getFailed")
    /\ (pc = "detailsGet"
            /\ \E o \in {"getFailed", "fieldsMissing"} : novelLog' = Append(novelLog, o))
       => /\ SkipEffect
          /\ stats'.novelsProcessed = stats.novelsProcessed
    /\ pc' \in {"chapDelay", "chapGet"}
       => /\ Len(novelLog') = idx'
          /\ novelLog'[idx'] \notin {"getFailed", "fieldsMissing"}

C16_MetadataSkip == [][C16_Step]_vars

C16_Witness ==
    /\ pc = "done"
    /\ novelLog = <<"fieldsMissing", "saved">>
    /\ stats.novelsSkippedOrFailed = 1
    /\ stats.novelsProcessed = 1
    /\ ChapterNumbers(1) = {}
    /\ ChapterNumbers(2) = {1}

\* declared counts that are absent, no integer, or an integer <= 0
InvalidCounts == {Null, <<"x">>, <<"0">>, <<"-", "1">>}

\* C17: a landing page with title and chapter-list location whose declared
\* chapter count is absent, no integer or <= 0 makes the novel Skipped:
\* novelsSkippedOrFailed grows by exactly 1, nothing is stored, main moves to
\* the next list entry, and chapters are only ever fetched for a novel with a
\* positive target
C17_Step ==
    /\ (pc = "detailsGet" /\ ~Crashing /\ world.fixedSite
            /\ LandingAnswer.getOk
            /\ LandingAnswer.title # Null
            /\ LandingAnswer.chaptersUrl # Null
            /\ LandingAnswer.chapters \in InvalidCounts)
       => novelLog' = Append(novelLog, "noTarget")
    /\ (pc = "detailsGet" /\ novelLog' = Append(novelLog, "noTarget"))
       => SkipEffect
    /\ pc' \in {"chapDelay", "chapGet"}
       => /\ novelLog'[idx'] # "noTarget"
          /\ latestChapterNumber' >= 1

C17_TargetSkip == [][C17_Step]_vars

C17_Witness ==
    /\ pc = "done"
    /\ world.fixedSite
    /\ novelLog = <<"noTarget">>
    /\ site[LandingPage(1)].chapters = <<"-", "1">>
    /\ stats.novelsSkippedOrFailed = 1
    /\ stats.chaptersAttempted = 0
    /\ novels = {}

HasNovel(url) == \E n \in novels : n.novelUrl = url

\* C18: a novel that passes the metadata and target tests goes to upsertNovel
\* before any chapter is fetched; the call is made once for the novel (its
\* position is entered from the landing page only and left by the call); a
\* call that succeeds leaves the Novel document with the scraped fields, the
\* chapter loop runs only with that document in place, and a run that ends
\* holds the document of every novel saved, whatever its chapter fetches gave
C18_Step ==
    /\ (pc = "detailsGet" /\ ~Crashing /\ novelLog' = novelLog)
       => pc' = "upsertNovel"
    /\ (pc' = "upsertNovel" /\ pc # "upsertNovel")
       => /\ pc = "detailsGet"
          /\ Len(novelLog') = idx' - 1
          /\ fetchLog' = <<>>
    /\ (pc = "upsertNovel" /\ ~Crashing)
       => /\ pc' # "upsertNovel"
          /\ idx' = idx
          /\ Len(novelLog') = idx
    /\ (pc = "upsertNovel" /\ dbResult' = "ok")
       => \E n \in novels' : /\ n.novelUrl = startUrls[idx]
                             /\ n.title = novelDetails.title
                             /\ n.totalChapters = novelDetails.chapters
    /\ pc' \in ChapterSteps
       => /\ novelLog'[idx'] = "saved"
          /\ \E n \in novels' : n.novelUrl = startUrls[idx']
    /\ (pc' = "done" /\ pc # "done")
       => \A k \in 1..Len(novelLog') :
            novelLog'[k] = "saved" => HasNovel(startUrls[k])'

C18_NovelSavedFirst == [][C18_Step]_vars

C18_Witness ==
    /\ pc = "done"
    /\ novelLog = <<"saved">>
    /\ latestChapterNumber = 2
    /\ Count(fetchLog, "error") = 2
    /\ HasNovel(1)
    /\ chapters = {}

\* C19: upsertNovel, failed or not, leaves the chapters array of every
\* existing Novel document as it was; on the document of the novel at hand
\* it replaces the scraped fields only
C19_Step ==
    pc = "upsertNovel"
    => /\ \A n \in novels : \E m \in novels' : /\ m.novelUrl = n.novelUrl
                                               /\ m.chapters = n.chapters
       /\ dbResult' = "ok"
          => \A n \in novels :
               n.novelUrl = startUrls[idx]
               => [n EXCEPT !.title = novelDetails.title,
                            !.totalChapters = novelDetails.chapters] \in novels'

C19_ReferencesPreserved == [][C19_Step]_vars

C19_Witness ==
    /\ pc = "highest"
    /\ run = 2
    /\ dbResult = "ok"
    /\ \E n \in novels :
         /\ n.novelUrl = startUrls[idx]
         /\ n.totalChapters = <<"1">>
         /\ n.chapters = <<ChapterId(n.novelUrl, 1), ChapterId(n.novelUrl, 2)>>

NoDuplicates(s) == \A a, b \in 1..Len(s) : s[a] = s[b] => a = b

\* C20: a reference update that succeeds leaves the Novel collection as it
\* is when the chapter identity is already in the novel's chapters array and
\* appends it otherwise; no chapters array ever holds an identity twice
C20_Step ==
    /\ (pc = "addRef" /\ dbResult' = "ok")
       => \A n \in novels :
            n.novelUrl = startUrls[idx]
            => IF InSeq(ChapterId(startUrls[idx], chapterData.chapterNumber), n.chapters)
               THEN novels' = novels
               ELSE novels' = (novels \ {n}) \cup
                       { [n EXCEPT !.chapters =
                            Append(@, ChapterId(startUrls[idx], chapterData.chapterNumber))] }
    /\ \A n \in novels' : NoDuplicates(n.chapters)

C20_SetSemantics == [][C20_Step]_vars

C20_Witness ==
    /\ pc = "postDelay"
    /\ run = 2
    /\ cursorQuery = "failed"
    /\ i = 1
    /\ dbResult = "ok"
    /\ LastFetchIs(fetchLog, 1, "ok")
    /\ \E n \in novels :
         n.chapters = <<ChapterId(n.novelUrl, 1), ChapterId(n.novelUrl, 2)>>

\* C21: no two Novel documents carry the same novelUrl, and an upsertNovel
\* for a URL that has a document leaves the number of documents as it is
C21_Step ==
    /\ \A n, m \in novels' : n.novelUrl = m.novelUrl => n = m
    /\ (pc = "upsertNovel" /\ HasNovel(startUrls[idx]))
       => Cardinality(novels') = Cardinality(novels)

C21_OneRecordPerIdentity == [][C21_Step]_vars

C21_Witness ==
    /\ pc = "highest"
    /\ run = 2
    /\ dbResult = "ok"
    /\ Cardinality(novels) = 1
    /\ \E n \in novels :
         /\ n.novelUrl = startUrls[idx]
         /\ n.totalChapters = <<"2">>
         /\ n.chapters = <<ChapterId(n.novelUrl, 1)>>
    /\ ChapterNumbers(startUrls[idx]) = {1}

NovelKeys == { n.novelUrl : n \in novels }
ChapterKeys == { <<c.novel, c.chapterNumber>> : c \in chapters }

\* C22: no step of any run, abrupt termination and restart included, removes
\* a Novel document or a (novel, chapter number) Chapter document
C22_Step ==
    /\ NovelKeys \subseteq NovelKeys'
    /\ ChapterKeys \subseteq ChapterKeys'

C22_NeverDeletes == [][C22_Step]_vars

C22_Witness ==
    /\ pc = "done"
    /\ run = 2
    /\ prevRun = "aborted"
    /\ stats.dbChapterUpdateSuccess = 1
    /\ FetchedNumbers = <<2>>
    /\ ChapterKeys = { <<1, 1>>, <<1, 2>> }
    /\ NovelKeys = {1}

\* C23: an attempt of a chapter starts either at the resume cursor, right
\* after the highest-chapter query, or at i + 1, after the delay that closes
\* chapter i; while chapter i is fetched and persisted no other attempt
\* starts; the loop goes on while i < N, and when it ends the chapters
\* fetched are the resume cursor to N, in order, each once
C23_Step ==
    /\ (pc' = "chapDelay" /\ pc # "chapDelay")
       => /\ pc \in {"highest", "postDelay"}
          /\ i' = IF pc = "highest" THEN startChapterNumber' ELSE i + 1
          /\ i' <= latestChapterNumber'
          /\ stats'.chaptersAttempted = stats.chaptersAttempted + 1
    /\ (pc = "highest" /\ ~Crashing /\ startChapterNumber' <= latestChapterNumber)
       => pc' = "chapDelay"
    /\ (pc = "postDelay" /\ ~Crashing)
       => pc' = IF i < latestChapterNumber THEN "chapDelay" ELSE "novelDelay"
    /\ (pc \in {"chapDelay", "chapGet", "dbDelay", "upsertChapter", "addRef"}
            /\ ~Crashing)
       => /\ i' = i
          /\ pc' \in {"chapGet", "dbDelay", "upsertChapter", "addRef", "postDelay"}
    /\ (LoopFinished' /\ startChapterNumber' <= latestChapterNumber')
       => FetchedNumbers' = Range(startChapterNumber', latestChapterNumber')

C23_IncreasingOrder == [][C23_Step]_vars

C23_Witness ==
    /\ LoopFinished
    /\ startChapterNumber = 1
    /\ latestChapterNumber = 2
    /\ FetchedNumbers = <<1, 2>>
    /\ fetchLog[1].outcome = "error"
    /\ fetchLog[2].outcome = "ok"
    /\ stats.chaptersAttempted = 2
    /\ stats.dbChapterUpdateSuccess = 1

\* C24: an attempt of a chapter makes one GET and leaves the fetch position,
\* whatever the GET gave; a chapter GET is for a number above every number
\* fetched for the novel in the run, so no number is fetched twice; a landing
\* page is fetched once, for a list entry not handled before, and in the
\* first run on a fixed site no page fetched was fetched before
C24_Step ==
    /\ NoDuplicates(FetchedNumbers')
    /\ (pc = "chapGet" /\ ~Crashing)
       => /\ pc' \in {"dbDelay", "postDelay"}
          /\ Len(fetchLog') = Len(fetchLog) + 1
    /\ (pc' = "chapGet" /\ pc # "chapGet")
       => \A k \in 1..Len(fetchLog') : fetchLog'[k].n < i'
    /\ (pc = "detailsGet" /\ ~Crashing)
       => /\ pc' \in {"upsertNovel", "detailsDelay", "summary"}
          /\ pc' # "upsertNovel" => idx' = idx + 1
    /\ (pc' = "detailsGet" /\ pc # "detailsGet")
       => /\ pc = "detailsDelay"
          /\ Len(novelLog') = idx' - 1
    /\ (world.fixedSite /\ run = 1 /\ pc = "chapGet")
       => ChapterPage(startUrls[idx], i) \notin DOMAIN site
    /\ (world.fixedSite /\ run = 1 /\ pc = "detailsGet")
       => LandingPage(startUrls[idx]) \notin DOMAIN site

C24_NoRetries == [][C24_Step]_vars

C24_Witness ==
    /\ pc = "done"
    /\ run = 1
    /\ world.fixedSite
    /\ FetchedNumbers = <<1, 2>>
    /\ fetchLog[1].outcome = "error"
    /\ fetchLog[2].outcome = "empty"
    /\ stats.chaptersAttempted = 2
    /\ chapters = {}

\* chapter num of the novel is missing below a persisted chapter
Gap(novel, num) ==
    /\ num \notin ChapterNumbers(novel)
    /\ \E j \in ChapterNumbers(novel) : j > num

\* a chapter is being attempted
Attempting == pc \in {"chapDelay", "chapGet"}

\* C25 as stated: a chapter that was skipped while a later chapter is
\* persisted is never attempted again
C25_Original ==
    (/\ Attempting
     /\ startUrls[idx] \in skipped
     /\ startUrls[idx] \notin unsaved)
    => ~Gap(startUrls[idx], i)

\* C25 amended: a chapter missing below a persisted chapter of its novel is
\* not attempted by a run whose highest-chapter query for the novel succeeded
\* (a run whose query fails starts again at chapter 1 and attempts it)
C25_PermanentGap ==
    (Attempting /\ cursorQuery = "ok") => ~Gap(startUrls[idx], i)

C25_Witness ==
    /\ LoopFinished
    /\ run = 2
    /\ cursorQuery = "ok"
    /\ Gap(startUrls[idx], 1)
    /\ startUrls[idx] \in skipped
    /\ startUrls[idx] \notin unsaved
    /\ startChapterNumber = 3
    /\ fetchLog = <<>>

\* highest chapter number among the novel's Chapter documents + 1, or 1
DerivedCursor(novel) ==
    IF ChapterNumbers(novel) = {} THEN 1 ELSE Max(ChapterNumbers(novel)) + 1

\* C26 as stated: in a run that follows an abrupt termination the first
\* chapter attempted for a novel is the highest persisted number + 1, or 1
C26_Original ==
    [][(prevRun = "aborted" /\ pc = "highest" /\ ~Crashing)
          => /\ startChapterNumber' = DerivedCursor(startUrls[idx])
             /\ pc' = "chapDelay" => i' = DerivedCursor(startUrls[idx])]_vars

\* C26 amended: in a run that follows an abrupt termination, when the
\* highest-chapter query succeeds the cursor, and the first chapter attempted
\* if any, is the highest number among the novel's Chapter documents + 1, or
\* 1 if there are none, whatever the chapters array holds; when the query
\* fails the cursor is 1
C26_Step ==
    (prevRun = "aborted" /\ pc = "highest" /\ ~Crashing)
    => /\ startChapterNumber' = IF dbResult' = "ok"
                                THEN DerivedCursor(startUrls[idx]) ELSE 1
       /\ pc' = "chapDelay" => i' = startChapterNumber'
       /\ pc' # "chapDelay" => startChapterNumber' > latestChapterNumber

C26_CrashRecovery == [][C26_Step]_vars

C26_Witness ==
    /\ pc = "chapDelay"
    /\ run = 2
    /\ prevRun = "aborted"
    /\ cursorQuery = "ok"
    /\ preNumbers = {1}
    /\ i = 2
    /\ \E n \in novels : n.novelUrl = startUrls[idx] /\ n.chapters = <<>>

GetSteps == {"detailsGet", "chapGet"}

\* C27: the GET of a landing page is reached from the request delay of
\* scrapeNovelDetails only and the GET of a chapter page from the request
\* delay of scrapeChapterContent only; the delay step fetches nothing, pages
\* are fetched at the GET positions only, and a GET is never followed
\* directly by another GET
C27_Step ==
    /\ (pc' = "detailsGet" /\ pc # "detailsGet") => pc = "detailsDelay"
    /\ (pc' = "chapGet" /\ pc # "chapGet") => pc = "chapDelay"
    /\ (pc \in {"detailsDelay", "chapDelay"} /\ ~Crashing)
       => /\ pc' = IF pc = "detailsDelay" THEN "detailsGet" ELSE "chapGet"
          /\ UNCHANGED <<site, fetchLog, novelLog, store, stats>>
    /\ (site' # site \/ Len(fetchLog') > Len(fetchLog)) => pc \in GetSteps
    /\ pc \in GetSteps => pc' \notin GetSteps

C27_DelayBeforeGet == [][C27_Step]_vars

C27_Witness ==
    /\ pc = "chapGet"
    /\ run = 1
    /\ world.fixedSite
    /\ i = 2
    /\ FetchedNumbers = <<1>>
    /\ DOMAIN site = {LandingPage(1), ChapterPage(1, 1)}

\* C28 as stated: main moves from a list entry to the next one through the
\* inter-novel delay only, whether the novel was done, skipped or failed
C28_Original ==
    [][(idx >= 1 /\ idx' = idx + 1 /\ idx' <= Len(startUrls))
          => pc = "novelDelay"]_vars

\* C29: every Chapter document holds a body of at least one character, and
\* a step that writes the Chapter collection writes the non-empty content
\* scraped for chapter i
C29_Step ==
    /\ \A c \in chapters' : c.content # Null /\ Len(c.content) >= 1
    /\ chapters' # chapters
       => /\ pc = "upsertChapter"
          /\ chapterData.content \notin {Null, <<>>}
          /\ [novel |-> startUrls[idx], chapterNumber |-> i,
              content |-> chapterData.content] \in chapters'

C29_NonEmptyBody == [][C29_Step]_vars

C29_Witness ==
    /\ pc = "done"
    /\ run = 1
    /\ world.fixedSite
    /\ FetchedNumbers = <<1, 2>>
    /\ fetchLog[1].outcome = "empty"
    /\ site[ChapterPage(1, 1)].rawHtml = <<" ">>
    /\ chapters = { [novel |-> 1, chapterNumber |-> 2, content |-> <<"b">>] }

StartOfLoop ==
    IF cursorQuery = "ok" /\ preNumbers # {} THEN Max(preNumbers) + 1 ELSE 1

OutcomeSum ==
    stats.chaptersScrapedSuccess + stats.chaptersWithEmptyContent
        + stats.chaptersScrapedError

\* C31: chaptersAttempted is the sum of the three outcome counters whenever
\* no chapter is between its count as attempted and its fetch, so at the end
\* of every loop iteration and of every run; the fetch of a chapter adds 1 to
\* exactly one outcome counter
C31_Step ==
    /\ pc' \in {"chapDelay", "chapGet"} => stats'.chaptersAttempted = OutcomeSum' + 1
    /\ pc' \notin {"chapDelay", "chapGet"} => stats'.chaptersAttempted = OutcomeSum'
    /\ (pc = "chapGet" /\ ~Crashing)
       => /\ OutcomeSum' = OutcomeSum + 1
          /\ stats'.chaptersAttempted = stats.chaptersAttempted
          /\ stats'.chaptersScrapedSuccess >= stats.chaptersScrapedSuccess
          /\ stats'.chaptersWithEmptyContent >= stats.chaptersWithEmptyContent
          /\ stats'.chaptersScrapedError >= stats.chaptersScrapedError

C31_StatisticsPartition == [][C31_Step]_vars

C31_Witness ==
    /\ pc = "done"
    /\ stats.chaptersAttempted = 2
    /\ stats.chaptersScrapedSuccess = 1
    /\ stats.chaptersWithEmptyContent = 1
    /\ stats.chaptersScrapedError = 0
    /\ Len(fetchLog) = 2

\* C32: dbChapterUpdateSuccess <= chaptersScrapedSuccess <= chaptersAttempted
\* in every state; dbChapterUpdateSuccess grows by 1 with every upsertChapter
\* that succeeds and changes at no other step of a run, so it is the number
\* of upsertChapter calls of the run that succeeded
C32_Step ==
    /\ stats'.dbChapterUpdateSuccess <= stats'.chaptersScrapedSuccess
    /\ stats'.chaptersScrapedSuccess <= stats'.chaptersAttempted
    /\ (pc = "upsertChapter" /\ dbResult' = "ok")
       => stats'.dbChapterUpdateSuccess = stats.dbChapterUpdateSuccess + 1
    /\ (pc = "upsertChapter" /\ dbResult' = "failed")
       => stats'.dbChapterUpdateSuccess = stats.dbChapterUpdateSuccess
    /\ (pc # "upsertChapter" /\ ~Crashing /\ run' = run)
       => stats'.dbChapterUpdateSuccess = stats.dbChapterUpdateSuccess
    /\ pc' = "connect" => stats'.dbChapterUpdateSuccess = 0

C32_ChapterCounters == [][C32_Step]_vars

C32_Witness ==
    /\ pc = "done"
    /\ stats.chaptersAttempted = 2
    /\ stats.chaptersScrapedSuccess = 2
    /\ stats.dbChapterUpdateSuccess = 1
    /\ stats.dbErrors = 1
    /\ Cardinality(chapters) = 1

\* number of list entries the run has brought to Done or Skipped
Handled ==
    IF pc \in {"connect", "exited", "crashed"} THEN 0
    ELSE IF pc \in {"detailsDelay", "detailsGet", "upsertNovel"} THEN idx - 1
    ELSE IF pc \in {"summary", "done"} THEN Len(startUrls)
    ELSE idx

SkippedCount == Len(novelLog) - SavedCount

\* C33: the novels handled so far are each either Done (saved) or Skipped
\* (metadata, target or upsertNovel failed), and novelsProcessed counts the
\* former and novelsSkippedOrFailed the latter: with k novels handled the
\* two counters add up to k
C33_OneTerminalState ==
    /\ Len(novelLog) = Handled
    /\ stats.novelsProcessed = SavedCount
    /\ stats.novelsSkippedOrFailed = SkippedCount
    /\ stats.novelsProcessed + stats.novelsSkippedOrFailed = Handled

C33_Witness ==
    /\ pc = "done"
    /\ novelLog = <<"noTarget", "saveFailed", "saved">>
    /\ stats.novelsProcessed = 1
    /\ stats.novelsSkippedOrFailed = 2

\* C34: a highest-chapter query that fails adds 1 to dbErrors and sets the
\* cursor to 1, so the loop starts at chapter 1 and fetches 1..N whatever is
\* persisted; a chapter of these whose Chapter document exists and whose
\* upsert succeeds has its content replaced by the content just scraped
C34_Step ==
    /\ (pc = "highest" /\ dbResult' = "failed")
       => /\ stats'.dbErrors = stats.dbErrors + 1
          /\ startChapterNumber' = 1
          /\ i' = 1
          /\ pc' = "chapDelay"
    /\ (LoopFinished' /\ cursorQuery' = "failed")
       => FetchedNumbers' = Range(1, latestChapterNumber')
    /\ (pc = "upsertChapter" /\ dbResult' = "ok" /\ cursorQuery = "failed"
            /\ HasChapter(startUrls[idx], i))
       => /\ ChapterKeys' = ChapterKeys
          /\ \E c \in chapters' : /\ c.novel = startUrls[idx]
                                  /\ c.chapterNumber = i
                                  /\ c.content = chapterData.content

C34_CursorFallback == [][C34_Step]_vars

C34_Witness ==
    /\ LoopFinished
    /\ run = 2
    /\ cursorQuery = "failed"
    /\ preNumbers = {1, 2}
    /\ FetchedNumbers = <<1, 2>>
    /\ stats.dbErrors = 1
    /\ stats.dbChapterUpdateSuccess = 2
    /\ Cardinality(chapters) = 2

\* the identities in the chapters array of a Novel document
ReferencedIds(n) == { n.chapters[k] : k \in 1..Len(n.chapters) }

\* the identities of the Chapter documents of a novel
ChapterIds(novel) == { ChapterId(novel, num) : num \in ChapterNumbers(novel) }

\* the run has ended with every fetch and every store call succeeded
CleanRunDone ==
    /\ pc = "done"
    /\ Len(novelLog) = Len(startUrls)
    /\ stats.novelsSkippedOrFailed = 0
    /\ stats.chaptersWithEmptyContent = 0
    /\ stats.dbErrors = 0

\* C35 as stated: after abruptly terminated runs and then a run that ends
\* with every fetch and store write succeeded, every novel's chapters array
\* holds exactly the identities of the novel's Chapter documents
C35_Original ==
    (prevRun = "aborted" /\ CleanRunDone)
    => \A n \in novels : ReferencedIds(n) = ChapterIds(n.novelUrl)

SkipOutcomes == {"getFailed", "fieldsMissing", "noTarget"}

\* the landing page answered lacks what main needs to go on
Unusable(r) ==
    \/ ~r.getOk
    \/ r.title = Null
    \/ r.chaptersUrl = Null
    \/ r.chapters \in InvalidCounts

\* C36: the step that skips a novel for its metadata or its target leaves
\* the Novel and Chapter collections as they are; a novel skipped in the
\* first run has no Novel document, no Chapter document and no reference,
\* and on a fixed site that holds for every novel whose landing page is
\* unusable
C36_Step ==
    /\ (pc = "detailsGet" /\ \E o \in SkipOutcomes : novelLog' = Append(novelLog, o))
       => /\ novels' = novels
          /\ chapters' = chapters
          /\ pc' \in {"detailsDelay", "summary"}
    /\ run' = 1
       => \A k \in 1..Len(novelLog') :
            novelLog'[k] \in SkipOutcomes
            => /\ \A n \in novels' : n.novelUrl # startUrls[k]
               /\ \A c \in chapters' : c.novel # startUrls[k]
    /\ (run' = 1 /\ world.fixedSite)
       => \A u \in 1..Len(startUrls) :
            (LandingPage(u) \in DOMAIN site' /\ Unusable(site'[LandingPage(u)]))
            => /\ \A n \in novels' : n.novelUrl # u
               /\ \A c \in chapters' : c.novel # u

C36_SkipLeavesStore == [][C36_Step]_vars

C36_Witness ==
    /\ pc = "done"
    /\ run = 1
    /\ novelLog = <<"saved", "noTarget", "fieldsMissing">>
    /\ NovelKeys = {1}
    /\ ChapterKeys = { <<1, 1>> }
    /\ ReferencePairs = { <<1, ChapterId(1, 1)>> }

====
